---- MODULE Spec2Model ----
(***************************************************************************)
(* Model of whats_new.py: one run of main() over a repository with a set   *)
(* of tags, a target version given on the command line, the commit         *)
(* subjects git log prints for a range, and the outcome of the call to the *)
(* text-generation service.                                                *)
(*                                                                         *)
(* Python strings are sequences of one-character strings, so that          *)
(* re.match, str.strip, str.splitlines, str.join and version.parse are     *)
(* computed character by character.                                        *)
(***************************************************************************)
EXTENDS Integers, Sequences, FiniteSets, TLC

\* ------------------------------------------------------------------ bounds
MaxTags == 3
MaxCommits == 2

\* -------------------------------------------------------------- characters
NL == "\n"
Bullet == "U+2022"
Digits == {"0", "1", "2", "3", "4", "5", "6", "7", "8", "9"}
Whitespace == {" ", "\t", "\n", "\r"}

\* Python's None (no one-character string equals it)
None == <<"<None>">>

DigitVal(c) ==
    CASE c = "0" -> 0 [] c = "1" -> 1 [] c = "2" -> 2 [] c = "3" -> 3
      [] c = "4" -> 4 [] c = "5" -> 5 [] c = "6" -> 6 [] c = "7" -> 7
      [] c = "8" -> 8 [] c = "9" -> 9

\* code point of a character, for Python's str comparison
Ord(c) ==
    CASE c = "-" -> 45 [] c = "." -> 46
      [] c \in Digits -> 48 + DigitVal(c)
      [] c = "a" -> 97 [] c = "e" -> 101 [] c = "l" -> 108
      [] c = "r" -> 114 [] c = "s" -> 115 [] c = "v" -> 118
      [] OTHER -> 0

\* ------------------------------------------------------- string primitives
\* str.strip(): drop leading and trailing whitespace
RECURSIVE LStrip(_)
LStrip(s) ==
    IF s # <<>> /\ Head(s) \in Whitespace THEN LStrip(Tail(s)) ELSE s

RECURSIVE RStrip(_)
RStrip(s) ==
    IF s # <<>> /\ s[Len(s)] \in Whitespace
    THEN RStrip(SubSeq(s, 1, Len(s) - 1))
    ELSE s

Strip(s) == RStrip(LStrip(s))

\* str.splitlines(): split at line boundaries; no entry after a final newline
RECURSIVE Splitlines(_)
Splitlines(s) ==
    IF s = <<>> THEN <<>>
    ELSE IF \E i \in 1..Len(s) : s[i] = NL
         THEN LET i == CHOOSE k \in 1..Len(s) :
                          s[k] = NL /\ \A m \in 1..(k - 1) : s[m] # NL
              IN  <<SubSeq(s, 1, i - 1)>> \o Splitlines(SubSeq(s, i + 1, Len(s)))
         ELSE <<s>>

\* sep.join(parts)
RECURSIVE Join(_, _)
Join(sep, parts) ==
    IF parts = <<>> THEN <<>>
    ELSE IF Len(parts) = 1 THEN parts[1]
    ELSE parts[1] \o sep \o Join(sep, Tail(parts))

\* ----------------------------------------------------------- tag matching
\* index of the first character at or after i that is not a digit
RECURSIVE DigitsEnd(_, _)
DigitsEnd(s, i) ==
    IF i <= Len(s) /\ s[i] \in Digits THEN DigitsEnd(s, i + 1) ELSE i

\* the same match returning the whole match (group 0), which keeps the v
SemverMatchGroup0(tag) ==
    LET p0 == IF tag # <<>> /\ tag[1] = "v" THEN 2 ELSE 1
        p1 == DigitsEnd(tag, p0)
        p2 == DigitsEnd(tag, p1 + 1)
        p3 == DigitsEnd(tag, p2 + 1)
    IN  IF /\ p1 > p0 /\ p1 <= Len(tag) /\ tag[p1] = "."
           /\ p2 > p1 + 1 /\ p2 <= Len(tag) /\ tag[p2] = "."
           /\ p3 > p2 + 1 /\ p3 = Len(tag) + 1
        THEN tag
        ELSE None

\* re.match(r"^v?(\d+\.\d+\.\d+)$", tag) followed by match.group(1);
\* None when the tag does not match.  \d is modelled on the ASCII digits.
SemverMatch(tag) ==
    LET p0 == IF tag # <<>> /\ tag[1] = "v" THEN 2 ELSE 1
        p1 == DigitsEnd(tag, p0)
        p2 == DigitsEnd(tag, p1 + 1)
        p3 == DigitsEnd(tag, p2 + 1)
    IN  IF /\ p1 > p0 /\ p1 <= Len(tag) /\ tag[p1] = "."
           /\ p2 > p1 + 1 /\ p2 <= Len(tag) /\ tag[p2] = "."
           /\ p3 > p2 + 1 /\ p3 = Len(tag) + 1
        THEN SubSeq(tag, p0, Len(tag))
        ELSE None

\* ------------------------------------------------------------ version keys
\* int() of a run of decimal digits
RECURSIVE ParseInt(_)
ParseInt(s) ==
    IF s = <<>> THEN 0
    ELSE 10 * ParseInt(SubSeq(s, 1, Len(s) - 1)) + DigitVal(s[Len(s)])

\* sort key that compares the strings themselves (code points)
StringKey(v) == [i \in 1..Len(v) |-> Ord(v[i])]

\* packaging.version.parse(v) for v of the form X.Y.Z: the release tuple
version_parse(v) ==
    LET p1 == DigitsEnd(v, 1)
        p2 == DigitsEnd(v, p1 + 1)
    IN  << ParseInt(SubSeq(v, 1, p1 - 1)),
           ParseInt(SubSeq(v, p1 + 1, p2 - 1)),
           ParseInt(SubSeq(v, p2 + 1, Len(v))) >>

\* Python's ordering of two sequences of integers: a < b
RECURSIVE KeyLess(_, _)
KeyLess(a, b) ==
    IF b = <<>> THEN FALSE
    ELSE IF a = <<>> THEN TRUE
    ELSE IF a[1] # b[1] THEN a[1] < b[1]
    ELSE KeyLess(Tail(a), Tail(b))

\* list.sort(key=version.parse): stable, ascending by key
RECURSIVE InsertByKey(_, _)
InsertByKey(x, sorted) ==
    IF sorted = <<>> THEN <<x>>
    ELSE IF KeyLess(version_parse(x), version_parse(Head(sorted)))
         THEN <<x>> \o sorted
         ELSE <<Head(sorted)>> \o InsertByKey(x, Tail(sorted))

RECURSIVE SortByVersion(_)
SortByVersion(l) ==
    IF l = <<>> THEN <<>>
    ELSE InsertByKey(l[Len(l)], SortByVersion(SubSeq(l, 1, Len(l) - 1)))


\* ----------------------------------------------------------------- literals
VersionPrefix == <<"V", "e", "r", "s", "i", "o", "n", " ">>
NotFoundSuffix == <<" ", "n", "o", "t", " ", "f", "o", "u", "n", "d", " ", "i", "n", " ", "t", "a", "g", "s", ".">>
NoPreviousMsg == <<"N", "o", " ", "p", "r", "e", "v", "i", "o", "u", "s", " ", "v", "e", "r", "s", "i", "o", "n", " ", "f", "o", "u", "n", "d", ".">>
GitErrorPrefix == <<"G", "i", "t", " ", "e", "r", "r", "o", "r", ":", " ">>
WhatsNewHeading == <<"W", "h", "a", "t", "'", "s", " ", "N", "e", "w", ":", NL, NL>>
NoChangesMsg == <<"N", "o", " ", "c", "h", "a", "n", "g", "e", "s", " ", "f", "o", "u", "n", "d", ".">>
BulletPrefix == <<Bullet, " ">>
\* what git writes to stderr when it exits non-zero
GitStderr == <<"f", "a", "t", "a", "l">>
\* list.index(x) on a list without x: ValueError
NotInListMsg == <<"n", "o", "t", " ", "i", "n", " ", "l", "i", "s", "t">>

\* ------------------------------------------------------------------- inputs
T100 == <<"1", ".", "0", ".", "0">>
Tv100 == <<"v", "1", ".", "0", ".", "0">>
T110 == <<"1", ".", "1", ".", "0">>
Tv110 == <<"v", "1", ".", "1", ".", "0">>
T999 == <<"9", ".", "9", ".", "9">>
T1000 == <<"1", "0", ".", "0", ".", "0">>
T200 == <<"2", ".", "0", ".", "0">>
Trel == <<"r", "e", "l", "e", "a", "s", "e", "-", "1">>
T12 == <<"1", ".", "2">>

\* tag names a repository may hold
TagPool == {T100, Tv100, T110, Tv110, T999, T1000, Trel, T12}
\* version arguments given on the command line
TargetPool == {T100, Tv100, T110, Tv110, T1000, T200}
\* commit subject lines (a commit may have an empty subject)
SubjectPool == {<<>>, <<"a">>, <<"l", "e">>}
\* texts the text-generation service may answer with
AiTexts == {<<"o", "k">>}
\* how the call to the text-generation service ends
ApiOutcomes == {"ok", "client_fails", "request_fails", "response_fails"}

\* sequences over S of length at most n
SeqsUpTo(S, n) == UNION {[1..k -> S] : k \in 0..n}
\* listings of distinct tag names, in any order git is configured to print
TagListings ==
    {l \in SeqsUpTo(TagPool, MaxTags) :
        \A i, j \in 1..Len(l) : i # j => l[i] # l[j]}

\* -------------------------------------------------------------------- state
VARIABLES
    tagListing,       \* the repository's tags, in the order git tag prints them
    current_version,  \* args.version
    pc,               \* position of main()
    all_versions,     \* main: all_versions
    prev_version,     \* main: prev_version
    range,            \* the two revisions of the FROM..TO expression given to git log
    subjects,         \* the subjects of the commits of that range, newest first
    commits,          \* main: commits
    summary,          \* main: summary
    stdout,           \* what the run has printed
    error,            \* message of the exception that ended the run
    invoked,          \* the components and services the run has called
    apiOutcome        \* how the call to the text-generation service ended

vars == <<tagListing, current_version, pc, all_versions, prev_version, range,
          subjects, commits, summary, stdout, error, invoked, apiOutcome>>

\* names of the tags of the repository
RepoTags == {tagListing[i] : i \in 1..Len(tagListing)}

Init ==
    /\ tagListing \in TagListings
    /\ current_version \in TargetPool
    /\ pc = "start"
    /\ all_versions = None
    /\ prev_version = None
    /\ range = None
    /\ subjects = None
    /\ commits = None
    /\ summary = None
    /\ stdout = <<>>
    /\ error = None
    /\ invoked = {}
    /\ apiOutcome = None

\* ------------------------------------------------------------ git commands
\* run_git_command on success: stdout stripped
run_git_command(out) == Strip(out)

\* what git tag writes: one tag per line
GitTagOutput(listing) ==
    IF listing = <<>> THEN <<>> ELSE Join(<<NL>>, listing) \o <<NL>>

\* what git log --pretty=format:%s writes: subjects separated by newlines
GitLogOutput(subj) == Join(<<NL>>, subj)

\* --------------------------------------------------------------- functions
\* the loop of get_all_semver_tags: append group(1) of every matching line
RECURSIVE CollectSemver(_)
CollectSemver(raw_tags) ==
    IF raw_tags = <<>> THEN <<>>
    ELSE LET m == SemverMatch(Head(raw_tags))
         IN  (IF m # None THEN <<m>> ELSE <<>>) \o CollectSemver(Tail(raw_tags))

get_all_semver_tags(out) ==
    SortByVersion(CollectSemver(Splitlines(run_git_command(out))))

\* membership by numeric triple instead of by string
ContainsNormalized(l, x) ==
    /\ SemverMatch(x) # None
    /\ \E i \in 1..Len(l) :
          version_parse(l[i]) = version_parse(SemverMatch(x))

\* x in l
Contains(l, x) == \E i \in 1..Len(l) : l[i] = x

\* l.index(x), counted from 0; -1 stands for the ValueError of a missing x
ListIndex(l, x) ==
    IF \E i \in 1..Len(l) : l[i] = x
    THEN (CHOOSE i \in 1..Len(l) :
              l[i] = x /\ \A j \in 1..(i - 1) : l[j] # x) - 1
    ELSE -1

\* guard off by one: the second element has no predecessor either
find_previous_version_skip(all, current) ==
    LET current_idx == ListIndex(all, current)
    IN  IF current_idx > 1 THEN all[current_idx] ELSE None

find_previous_version(all, current) ==
    LET current_idx == ListIndex(all, current)
    IN  IF current_idx > 0 THEN all[current_idx] ELSE None

\* the commits get_commits_between_versions returns for git's output
get_commits_between_versions(out) == Splitlines(run_git_command(out))

\* "\n".join(f"bullet {msg}" for msg in commits)
commit_list(cs) == Join(<<NL>>, [i \in 1..Len(cs) |-> BulletPrefix \o cs[i]])

FallbackText(cs) == WhatsNewHeading \o commit_list(cs)

NotFoundMessage(v) == VersionPrefix \o v \o NotFoundSuffix

\* ------------------------------------------------------------------ actions
\* main: all_versions = get_all_semver_tags(repo_path)
MainTags ==
    /\ pc = "start"
    /\ pc' = "tags"
    /\ all_versions' = get_all_semver_tags(GitTagOutput(tagListing))
    /\ invoked' = invoked \cup {"git tag"}
    /\ UNCHANGED <<apiOutcome, tagListing, current_version, prev_version,
                   range, subjects, commits, summary, stdout, error>>

\* git tag exits non-zero (the path is not a repository)
MainTagsGitError ==
    /\ pc = "start"
    /\ tagListing = <<>>
    /\ pc' = "failed"
    /\ error' = GitErrorPrefix \o GitStderr
    /\ invoked' = invoked \cup {"git tag"}
    /\ UNCHANGED <<apiOutcome, tagListing, current_version, all_versions,
                   prev_version, range, subjects, commits, summary, stdout>>

\* main: if current_version not in all_versions: raise ValueError
MainCheck ==
    /\ pc = "tags"
    /\ IF Contains(all_versions, current_version)
       THEN pc' = "checked" /\ UNCHANGED error
       ELSE pc' = "failed" /\ error' = NotFoundMessage(current_version)
    /\ UNCHANGED <<apiOutcome, tagListing, current_version, all_versions,
                   prev_version, range, subjects, commits, summary, stdout,
                   invoked>>

\* main: prev_version = find_previous_version(...); if not prev_version: raise
MainLocate ==
    /\ pc = "checked"
    /\ invoked' = invoked \cup {"find_previous_version"}
    /\ IF ListIndex(all_versions, current_version) = -1
       THEN /\ pc' = "failed"
            /\ error' = NotInListMsg
            /\ UNCHANGED prev_version
       ELSE LET prev == find_previous_version(all_versions, current_version)
            IN  /\ prev_version' = prev
                /\ IF prev = None \/ prev = <<>>
                   THEN pc' = "failed" /\ error' = NoPreviousMsg
                   ELSE pc' = "located" /\ UNCHANGED error
    /\ UNCHANGED <<apiOutcome, tagListing, current_version, all_versions,
                   range, subjects, commits, summary, stdout>>

\* main: commits = get_commits_between_versions(repo_path, prev, current);
\* git log fails when a revision of the range names nothing in the repository
MainCommits ==
    /\ pc = "located"
    /\ invoked' = invoked \cup {"git log"}
    /\ range' = <<prev_version, current_version>>
    /\ IF prev_version \in RepoTags /\ current_version \in RepoTags
       THEN \E subj \in SeqsUpTo(SubjectPool, MaxCommits) :
                /\ subjects' = subj
                /\ commits' = get_commits_between_versions(GitLogOutput(subj))
                /\ pc' = "commits"
                /\ UNCHANGED error
       ELSE /\ pc' = "failed"
            /\ error' = GitErrorPrefix \o GitStderr
            /\ UNCHANGED <<subjects, commits>>
    /\ UNCHANGED <<apiOutcome, tagListing, current_version, all_versions,
                   prev_version, summary, stdout>>

\* the try block covers the request only: a failing client construction or a
\* malformed response propagates
FormatNarrowTry ==
    /\ pc = "commits"
    /\ IF commits = <<>>
       THEN /\ summary' = NoChangesMsg
            /\ pc' = "formatted"
            /\ UNCHANGED <<invoked, error, apiOutcome>>
       ELSE \E outcome \in ApiOutcomes :
               /\ apiOutcome' = <<outcome>>
               /\ invoked' = invoked \cup
                     (IF outcome = "client_fails"
                      THEN {"Anthropic()"}
                      ELSE {"Anthropic()", "messages.create"})
               /\ IF outcome = "ok"
                  THEN /\ summary' \in AiTexts
                       /\ pc' = "formatted"
                       /\ UNCHANGED error
                  ELSE IF outcome = "request_fails"
                  THEN /\ summary' = FallbackText(commits)
                       /\ pc' = "formatted"
                       /\ UNCHANGED error
                  ELSE /\ pc' = "failed"
                       /\ error' = <<outcome>>
                       /\ UNCHANGED summary
    /\ UNCHANGED <<tagListing, current_version, all_versions, prev_version,
                   range, subjects, commits, stdout>>

\* the client is constructed before the commit list is looked at
FormatClientFirst ==
    /\ pc = "commits"
    /\ pc' = "formatted"
    /\ IF commits = <<>>
       THEN /\ summary' = NoChangesMsg
            /\ invoked' = invoked \cup {"Anthropic()"}
            /\ UNCHANGED apiOutcome
       ELSE \E outcome \in ApiOutcomes :
               /\ apiOutcome' = <<outcome>>
               /\ invoked' = invoked \cup
                     (IF outcome = "client_fails"
                      THEN {"Anthropic()"}
                      ELSE {"Anthropic()", "messages.create"})
               /\ IF outcome = "ok"
                  THEN summary' \in AiTexts
                  ELSE summary' = FallbackText(commits)
    /\ UNCHANGED <<tagListing, current_version, all_versions, prev_version,
                   range, subjects, commits, stdout, error>>

\* main: summary = format_whats_new_with_claude(commits, current_version)
MainFormat ==
    /\ pc = "commits"
    /\ pc' = "formatted"
    /\ IF commits = <<>>
       THEN /\ summary' = NoChangesMsg
            /\ UNCHANGED <<invoked, apiOutcome>>
       ELSE \E outcome \in ApiOutcomes :
               /\ apiOutcome' = <<outcome>>
               /\ invoked' = invoked \cup
                     (IF outcome = "client_fails"
                      THEN {"Anthropic()"}
                      ELSE {"Anthropic()", "messages.create"})
               /\ IF outcome = "ok"
                  THEN summary' \in AiTexts
                  ELSE summary' = FallbackText(commits)
    /\ UNCHANGED <<tagListing, current_version, all_versions, prev_version,
                   range, subjects, commits, stdout, error>>

\* main: print(summary)
MainPrint ==
    /\ pc = "formatted"
    /\ pc' = "done"
    /\ stdout' = summary \o <<NL>>
    /\ UNCHANGED <<apiOutcome, tagListing, current_version, all_versions,
                   prev_version, range, subjects, commits, summary, error,
                   invoked>>

Next ==
    \/ MainTags
    \/ MainTagsGitError
    \/ MainCheck
    \/ MainLocate
    \/ MainCommits
    \/ MainFormat
    \/ MainPrint

Spec == Init /\ [][Next]_vars

\* ------------------------------------------------------------- properties
\* Definitions the properties are stated with; they describe the expected
\* results directly and do not use the operators of the program above.

AllDigits(s) == s # <<>> /\ \A i \in 1..Len(s) : s[i] \in Digits

\* s is X.Y.Z with the first dot at i and the second at j
SplitsAt(s, i, j) ==
    /\ i < j
    /\ s[i] = "."
    /\ s[j] = "."
    /\ AllDigits(SubSeq(s, 1, i - 1))
    /\ AllDigits(SubSeq(s, i + 1, j - 1))
    /\ AllDigits(SubSeq(s, j + 1, Len(s)))

IsXYZ(s) == \E i, j \in 1..Len(s) : SplitsAt(s, i, j)

WellFormedTag(t) == IsXYZ(t) \/ (t # <<>> /\ t[1] = "v" /\ IsXYZ(Tail(t)))

WithoutV(t) == IF t # <<>> /\ t[1] = "v" THEN Tail(t) ELSE t

Count(l, x) == Cardinality({i \in 1..Len(l) : l[i] = x})

RECURSIVE Pow10(_)
Pow10(n) == IF n = 0 THEN 1 ELSE 10 * Pow10(n - 1)

RECURSIVE DecimalValue(_)
DecimalValue(s) ==
    IF s = <<>> THEN 0
    ELSE DigitVal(Head(s)) * Pow10(Len(s) - 1) + DecimalValue(Tail(s))

\* (major, minor, patch) of a string of the form X.Y.Z
NumericTriple(s) ==
    LET d == CHOOSE d \in (1..Len(s)) \X (1..Len(s)) : SplitsAt(s, d[1], d[2])
    IN  << DecimalValue(SubSeq(s, 1, d[1] - 1)),
           DecimalValue(SubSeq(s, d[1] + 1, d[2] - 1)),
           DecimalValue(SubSeq(s, d[2] + 1, Len(s))) >>

TripleLess(a, b) ==
    \/ a[1] < b[1]
    \/ a[1] = b[1] /\ a[2] < b[2]
    \/ a[1] = b[1] /\ a[2] = b[2] /\ a[3] < b[3]

TripleLeq(a, b) == a = b \/ TripleLess(a, b)

\* text is one line "bullet subject" per entry of cs, in the order of cs
RECURSIVE IsBulletLines(_, _)
IsBulletLines(text, cs) ==
    IF cs = <<>> THEN text = <<>>
    ELSE LET n == 2 + Len(cs[1])
         IN  /\ Len(text) >= n
             /\ text[1] = Bullet
             /\ text[2] = " "
             /\ SubSeq(text, 3, n) = cs[1]
             /\ IF Len(cs) = 1
                THEN Len(text) = n
                ELSE /\ Len(text) > n
                     /\ text[n + 1] = NL
                     /\ IsBulletLines(SubSeq(text, n + 2, Len(text)), Tail(cs))

ApiFailed ==
    apiOutcome \in {<<"client_fails">>, <<"request_fails">>, <<"response_fails">>}

\* C1: whenever the commit list is not empty and the text-generation step
\* fails (constructing the client, the request, or reading the response),
\* format_whats_new_with_claude does not raise and returns "What's New:", a
\* blank line, and one line "bullet subject" per commit in the input order.
C1_FallbackNeverRaises ==
    ApiFailed =>
        /\ commits # <<>>
        /\ pc \in {"formatted", "done"}
        /\ error = None
        /\ Len(summary) > 13
        /\ SubSeq(summary, 1, 13) =
               <<"W", "h", "a", "t", "'", "s", " ", "N", "e", "w", ":", "\n", "\n">>
        /\ IsBulletLines(SubSeq(summary, 14, Len(summary)), commits)

C1_Witness ==
    /\ pc = "formatted"
    /\ apiOutcome = <<"response_fails">>
    /\ Len(commits) = 2
    /\ commits[1] # commits[2]

\* C2: a target matching ^v?\d+\.\d+\.\d+$ whose tag exists in the repository
\* is found by the membership check: the run does not fail with
\* "Version {V} not found in tags."
C2_TaggedTargetIsFound ==
    (/\ all_versions # None
     /\ WellFormedTag(current_version)
     /\ current_version \in RepoTags)
        => ~(/\ pc = "failed"
             /\ error = <<"V", "e", "r", "s", "i", "o", "n", " ">>
                          \o current_version
                          \o <<" ", "n", "o", "t", " ", "f", "o", "u", "n", "d",
                               " ", "i", "n", " ", "t", "a", "g", "s", ".">>)

\* C3: get_all_semver_tags returns one entry per tag line matching
\* ^v?(\d+\.\d+\.\d+)$, without the leading v, nothing for the other lines
\* and no error for them; an empty listing gives an empty list.
C3_OnlyWellFormedNormalized ==
    /\ pc = "tags" => all_versions # None /\ error = None
    /\ all_versions # None =>
          /\ \A i \in 1..Len(all_versions) : IsXYZ(all_versions[i])
          /\ \A x \in {all_versions[i] : i \in 1..Len(all_versions)}
                      \cup {WithoutV(t) : t \in RepoTags} :
                Count(all_versions, x) =
                    Cardinality({t \in RepoTags :
                                    WellFormedTag(t) /\ WithoutV(t) = x})
          /\ tagListing = <<>> => all_versions = <<>>

C3_Witness ==
    /\ pc = "tags"
    /\ Len(tagListing) = 3
    /\ \E t \in RepoTags : ~WellFormedTag(t)
    /\ \E t \in RepoTags : WellFormedTag(t) /\ t[1] = "v"
    /\ \E t \in RepoTags : WellFormedTag(t) /\ t[1] # "v"

\* C4: the list get_all_semver_tags returns is ascending by the numbers
\* (major, minor, patch): each entry's triple is at most the next entry's.
C4_SortedNumerically ==
    all_versions # None =>
        \A i \in 1..(Len(all_versions) - 1) :
            TripleLeq(NumericTriple(all_versions[i]),
                      NumericTriple(all_versions[i + 1]))

C4_Witness ==
    /\ pc = "tags"
    /\ \E i \in 1..(Len(all_versions) - 1) :
          /\ all_versions[i] = <<"9", ".", "9", ".", "9">>
          /\ all_versions[i + 1] = <<"1", "0", ".", "0", ".", "0">>

\* C5: on a list that contains the target, find_previous_version returns None
\* when the target is the first element and otherwise the element right
\* before the target.
C5_PreviousIsPredecessor ==
    (/\ "find_previous_version" \in invoked
     /\ \E i \in 1..Len(all_versions) : all_versions[i] = current_version)
        => /\ all_versions[1] = current_version => prev_version = None
           /\ all_versions[1] # current_version =>
                 \E i \in 2..Len(all_versions) :
                    /\ all_versions[i] = current_version
                    /\ \A j \in 1..(i - 1) : all_versions[j] # current_version
                    /\ prev_version = all_versions[i - 1]

C5_Witness ==
    /\ pc = "located"
    /\ Len(all_versions) = 3
    /\ all_versions[2] = current_version
    /\ all_versions[1] # current_version
    /\ prev_version = all_versions[1]

\* C6: for an empty commit list format_whats_new_with_claude returns exactly
\* "No changes found." and neither constructs a client nor makes a request.
C6_EmptyMakesNoCall ==
    (pc \in {"formatted", "done"} /\ commits = <<>>)
        => /\ summary = <<"N", "o", " ", "c", "h", "a", "n", "g", "e", "s", " ",
                          "f", "o", "u", "n", "d", ".">>
           /\ "Anthropic()" \notin invoked
           /\ "messages.create" \notin invoked

C6_Witness ==
    /\ pc = "done"
    /\ subjects = <<>>
    /\ commits = <<>>

\* C7: when the target is not in the list the Tag Collector returned, the run
\* fails with "Version {V} not found in tags.", prints nothing, and invokes
\* neither the Version Locator, git log nor the text-generation service.
C7_AbsentTargetFails ==
    (/\ all_versions # None
     /\ pc \notin {"start", "tags"}
     /\ \A i \in 1..Len(all_versions) : all_versions[i] # current_version)
        => /\ pc = "failed"
           /\ error = <<"V", "e", "r", "s", "i", "o", "n", " ">>
                        \o current_version
                        \o <<" ", "n", "o", "t", " ", "f", "o", "u", "n", "d",
                             " ", "i", "n", " ", "t", "a", "g", "s", ".">>
           /\ stdout = <<>>
           /\ invoked = {"git tag"}

C7_Witness ==
    /\ pc = "failed"
    /\ current_version = <<"2", ".", "0", ".", "0">>
    /\ Len(all_versions) = 2
    /\ stdout = <<>>

\* C8: when the target is the earliest tagged release (it is a tag and no
\* semantic-version tag has a lower triple), the run fails with
\* "No previous version found." and invokes neither git log nor the
\* text-generation service.
C8_EarliestHasNoPrevious ==
    (/\ all_versions # None
     /\ pc \in {"failed", "done"}
     /\ WellFormedTag(current_version)
     /\ current_version \in RepoTags
     /\ \A t \in RepoTags :
           WellFormedTag(t) =>
               ~TripleLess(NumericTriple(WithoutV(t)),
                           NumericTriple(WithoutV(current_version))))
        => /\ pc = "failed"
           /\ error = <<"N", "o", " ", "p", "r", "e", "v", "i", "o", "u", "s",
                        " ", "v", "e", "r", "s", "i", "o", "n", " ", "f", "o",
                        "u", "n", "d", ".">>
           /\ invoked \cap {"git log", "Anthropic()", "messages.create"} = {}

\* C9: get_commits_between_versions returns one entry per commit of the
\* range, in git's order, each equal to the commit's subject (which may be
\* empty); an empty range gives the empty list.
C9_OneEntryPerCommit ==
    subjects # None => commits = subjects

\* C10: in every run that reaches git log, both revisions of the FROM..TO
\* expression are names of tags of the repository.
C10_RangeNamesTags ==
    "git log" \in invoked => range[1] \in RepoTags /\ range[2] \in RepoTags

====
